---- MODULE Spec2Model ----
(***************************************************************************)
(* ShopBot SaaS backend (src/main.py, src/schemas.py): the task            *)
(* resolution workflow (create_task, list_tasks, approve_selection), the   *)
(* stubbed candidate generator (search_products) and the bot CRUD the      *)
(* workflow depends on (create_bot, delete_bot), over a document store.    *)
(* signup is modelled for its uniqueness property.  update_bot, list_bots  *)
(* and the ACP stubs write no task and no user and are read by no property *)
(* below; they are not modelled.                                           *)
(*                                                                         *)
(* Representation                                                          *)
(*   - An ObjectId is a positive integer.  An id string is a record        *)
(*     [hex, n]: hex = TRUE for the 24-hex-digit text of ObjectId n, and   *)
(*     hex = FALSE for a text that is no ObjectId, n then telling such     *)
(*     texts apart: 0 for "nonexistent-id", 1 for the empty text.          *)
(*   - An Optional value is a sequence: << >> for None, <<v>> for v.       *)
(*   - A collection is the sequence of its documents in insertion order.   *)
(*   - Prices are in cents and ratings in hundredths.                      *)
(*   - A formatted string is the tuple of its pieces.                      *)
(***************************************************************************)
EXTENDS Integers, Sequences, FiniteSets, TLC

VARIABLES
    bots,       \* collection "bot"
    tasks,      \* collection "task"
    nextId,     \* the next ObjectId the store hands out
    resp,       \* the request last answered and its response
    inflight,   \* requests being served, one per worker (interleaved runs)
    users       \* collection "user"

vars == <<bots, tasks, nextId, resp, inflight, users>>

----------------------------------------------------------------------------
(* Bounds of the model *)

MaxDocs == 2        \* documents ever created (ObjectIds the store hands out)
MaxLimit == 9       \* largest limit given to search_products
LimitBelow == 2     \* limits start at 0 - LimitBelow
NumWorkers == 3     \* requests served in an interleaved run

(* Inputs *)

Users == {"u1", "u2"}
BotOwners == {"u1"}
Prompts == {"wireless mouse"}
Queries == {"wireless mouse", "usb hub"}
RetailerNames == {"amazon", "walmart", "ebay", "AMAZON", ""}
RetailerLists == {<< >>, <<"walmart", "amazon">>, <<"ebay", "amazon">>, <<"AMAZON">>}
Limits == (0 - LimitBelow)..MaxLimit

----------------------------------------------------------------------------
(* Values *)

None == << >>
Some(v) == <<v>>

Min(a, b) == IF a < b THEN a ELSE b

\* str(ObjectId): the id string of an ObjectId
str(oid) == [hex |-> TRUE, n |-> oid]

\* a text that is not in the store's id format
Malformed == [hex |-> FALSE, n |-> 0]

\* the empty text, which Python takes for false
EmptyText == [hex |-> FALSE, n |-> 1]

ObjectIdIsValidAlways(s) == TRUE

\* ObjectId.is_valid(s)
ObjectIdIsValid(s) == s.hex

\* ObjectId(s), for a valid s
ObjectId(s) == s.n

IdStrings == {str(n) : n \in 1..MaxDocs} \cup {Malformed}

\* str.lower() on the retailer names
Lower(s) == IF s = "AMAZON" THEN "amazon" ELSE s

\* Python's `a or b` on strings: the empty string is falsy
OrStr(opt, default) == IF opt = None \/ opt[1] = "" THEN default ELSE opt[1]

\* Python's list[i]: << >> stands for IndexError
PyIndex(seq, i) ==
    IF 0 <= i /\ i < Len(seq) THEN Some(seq[i + 1])
    ELSE IF i < 0 /\ 0 - i <= Len(seq) THEN Some(seq[Len(seq) + i + 1])
    ELSE None

\* len(range(n))
RangeLen(n) == IF n < 0 THEN 0 ELSE n

TaskStatus == {"queued", "running", "succeeded", "failed", "awaiting_approval"}

----------------------------------------------------------------------------
(* The document store *)

\* collection.find_one({"_id": oid})
FindOne(coll, oid) ==
    LET m == SelectSeq(coll, LAMBDA d : d._id = oid)
    IN  IF m = << >> THEN None ELSE Some(m[1])

\* {"$set": set} applied to one document
ApplySet(doc, set) ==
    [k \in DOMAIN doc \cup DOMAIN set |-> IF k \in DOMAIN set THEN set[k] ELSE doc[k]]

FindOneAndUpdateAll(coll, oid, set) == [i \in DOMAIN coll |-> ApplySet(coll[i], set)]

\* collection.find_one_and_update({"_id": oid}, {"$set": set}): the collection after
FindOneAndUpdate(coll, oid, set) ==
    [i \in DOMAIN coll |-> IF coll[i]._id = oid THEN ApplySet(coll[i], set) ELSE coll[i]]

\* collection.delete_one({"_id": oid}): the collection after
DeleteOne(coll, oid) == SelectSeq(coll, LAMBDA d : d._id # oid)

\* create_document(collection, record): the collection after, the record under a new id
CreateDocument(coll, oid, record) ==
    Append(coll, ApplySet(record, [_id |-> oid]))

\* serialize_doc
serialize_doc(doc) ==
    [k \in (DOMAIN doc \ {"_id"}) \cup {"id"} |->
        IF k = "id" THEN str(doc._id) ELSE doc[k]]

----------------------------------------------------------------------------
(* Candidate generator *)

SUPPORTED_RETAILERS == {"amazon", "walmart", "bestbuy", "target", "shopify"}

DEFAULT_RETAILER == "amazon"

MAX_RESULTS == 8
BASE_PRICE == 1999
PRICE_STEP == 525
BASE_RATING == 420
RATING_STEP == 10
DEFAULT_LIMIT == 5

SearchRetailerNoLower(retailer) == OrStr(retailer, DEFAULT_RETAILER)

\* the retailer search_products searches: (payload.retailer or "amazon").lower()
SearchRetailer(retailer) == Lower(OrStr(retailer, DEFAULT_RETAILER))

IsSupportedAlways(retailer) == TRUE

\* retailer in SUPPORTED_RETAILERS
IsSupported(retailer) == retailer \in SUPPORTED_RETAILERS

StubCountUnclamped(limit) == RangeLen(limit)

\* len(range(min(payload.limit, 8)))
StubCount(limit) == RangeLen(Min(limit, MAX_RESULTS))

\* the i-th stub item, i counted from 0
StubItem(query, retailer, i) ==
    [retailer |-> retailer,
     title    |-> <<query, " - Option ", i + 1>>,
     price    |-> BASE_PRICE + i * PRICE_STEP,
     rating   |-> BASE_RATING - i * RATING_STEP,
     url      |-> <<"https://", retailer, ".example.com/product/", i + 1>>,
     image    |-> "https://via.placeholder.com/300x200.png?text=Product"]

\* search_products as a function: [code, detail, results]
Search(query, retailer, limit) ==
    LET r == SearchRetailer(retailer)
    IN  IF ~IsSupported(r)
        THEN [code |-> 400, detail |-> "Unsupported retailer", results |-> << >>]
        ELSE [code |-> 200, detail |-> "",
              results |-> [i \in 1..StubCount(limit) |-> StubItem(query, r, i - 1)]]

----------------------------------------------------------------------------
(* Responses *)

NoResponse == [op |-> "none", req |-> << >>, code |-> 0, body |-> << >>]

Response(op, req, code, body) == [op |-> op, req |-> req, code |-> code, body |-> body]

\* HTTPException(status_code, detail) raised by handler op
Raise(op, req, code, detail) == Response(op, req, code, [detail |-> detail])

Idle == [pc |-> "idle"]

----------------------------------------------------------------------------
(* Bots *)

\* BotSchema as stored; the fields the workflow never reads are left out
NewBot(user_id, retailers) == [user_id |-> user_id, name |-> "bot", retailers |-> retailers]

\* POST /api/bots
create_bot(user_id, retailers) ==
    /\ nextId <= MaxDocs
    /\ LET bots2   == CreateDocument(bots, nextId, NewBot(user_id, retailers))
           created == FindOne(bots2, nextId)
       IN  /\ bots' = bots2
           /\ nextId' = nextId + 1
           /\ resp' = Response("create_bot", [user_id |-> user_id, retailers |-> retailers],
                               200, serialize_doc(created[1]))
    /\ UNCHANGED <<tasks, inflight, users>>

\* DELETE /api/bots/{bot_id}
delete_bot(bot_id) ==
    LET req == [bot_id |-> bot_id]
    IN  /\ IF ~ObjectIdIsValid(bot_id)
           THEN /\ resp' = Raise("delete_bot", req, 400, "Invalid bot id")
                /\ UNCHANGED bots
           ELSE /\ bots' = DeleteOne(bots, ObjectId(bot_id))
                /\ resp' = Response("delete_bot", req, 200, [ok |-> TRUE])
        /\ UNCHANGED <<tasks, nextId, inflight, users>>

----------------------------------------------------------------------------
(* Candidate search endpoint *)

\* POST /api/search
search_products(query, retailer, limit) ==
    LET req == [query |-> query, retailer |-> retailer, limit |-> limit]
        r   == Search(query, retailer, limit)
    IN  /\ resp' = IF r.code = 200
                   THEN Response("search_products", req, 200, [results |-> r.results])
                   ELSE Raise("search_products", req, r.code, r.detail)
        /\ UNCHANGED <<bots, tasks, nextId, inflight, users>>

----------------------------------------------------------------------------
(* Tasks *)

PAGE_SIZE == 50

BotLookupAny(coll, bot_id) == IF coll = << >> THEN None ELSE Some(coll[1])

\* the bot of create_task: find_one by id if the id is valid, else None
BotLookup(coll, bot_id) ==
    IF ObjectIdIsValid(bot_id) THEN FindOne(coll, ObjectId(bot_id)) ELSE None

PreferredRetailerLast(bot) ==
    IF bot.retailers = << >> THEN DEFAULT_RETAILER ELSE bot.retailers[Len(bot.retailers)]

\* (bot.get("retailers") or ["amazon"])[0]
PreferredRetailer(bot) ==
    IF bot.retailers = << >> THEN DEFAULT_RETAILER ELSE bot.retailers[1]

NewTaskDefaultStatus(user_id, bot_id, prompt, candidates) ==
    [user_id    |-> user_id,
     bot_id     |-> bot_id,
     prompt     |-> prompt,
     status     |-> "queued",
     candidates |-> candidates,
     selection  |-> None,
     logs       |-> << <<"Task created">>, <<"Searched ", Len(candidates), " candidates">> >>]

\* TaskSchema(...) of create_task, as create_document stores it
NewTask(user_id, bot_id, prompt, candidates) ==
    [user_id    |-> user_id,
     bot_id     |-> bot_id,
     prompt     |-> prompt,
     status     |-> "awaiting_approval",
     candidates |-> candidates,
     selection  |-> None,
     logs       |-> << <<"Task created">>, <<"Searched ", Len(candidates), " candidates">> >>]

\* create_task up to its store write: the error it raises, or the task to store
CreateTaskPlan(botsNow, user_id, bot_id, prompt) ==
    LET bot == BotLookup(botsNow, bot_id)
    IN  IF bot = None
        THEN [code |-> 404, detail |-> "Bot not found"]
        ELSE LET found == Search(prompt, Some(PreferredRetailer(bot[1])), DEFAULT_LIMIT)
             IN  IF found.code # 200
                 THEN [code |-> found.code, detail |-> found.detail]
                 ELSE [code |-> 200, task |-> NewTask(user_id, bot_id, prompt, found.results)]

\* POST /api/tasks
create_task(user_id, bot_id, prompt) ==
    LET req  == [user_id |-> user_id, bot_id |-> bot_id, prompt |-> prompt]
        plan == CreateTaskPlan(bots, user_id, bot_id, prompt)
    IN  /\ IF plan.code # 200
           THEN /\ resp' = Raise("create_task", req, plan.code, plan.detail)
                /\ UNCHANGED <<tasks, nextId>>
           ELSE /\ nextId <= MaxDocs
                /\ LET tasks2  == CreateDocument(tasks, nextId, plan.task)
                       created == FindOne(tasks2, nextId)
                   IN  /\ tasks' = tasks2
                       /\ nextId' = nextId + 1
                       /\ resp' = Response("create_task", req, 200, serialize_doc(created[1]))
        /\ UNCHANGED <<bots, inflight, users>>

\* a document matches a filter when it has the filter's value under each of its keys
Matches(doc, filter_q) == \A k \in DOMAIN filter_q : doc[k] = filter_q[k]

\* get_documents(collection, filter, limit): the first `limit` matching documents
GetDocuments(coll, filter_q, limit) ==
    LET m == SelectSeq(coll, LAMBDA d : Matches(d, filter_q))
    IN  SubSeq(m, 1, Min(limit, Len(m)))

TaskFilterIgnoresBot(user_id, bot_id) == [user_id |-> user_id]

TaskFilterAll(user_id, bot_id) == << >>

\* filter_q of list_tasks: `if bot_id:` narrows it only for a non-empty bot_id
TaskFilter(user_id, bot_id) ==
    IF bot_id = None \/ bot_id[1] = EmptyText
    THEN [user_id |-> user_id]
    ELSE [user_id |-> user_id, bot_id |-> bot_id[1]]

\* GET /api/tasks
list_tasks(user_id, bot_id) ==
    LET req  == [user_id |-> user_id, bot_id |-> bot_id]
        docs == GetDocuments(tasks, TaskFilter(user_id, bot_id), PAGE_SIZE)
    IN  /\ resp' = Response("list_tasks", req, 200,
                            [i \in DOMAIN docs |-> serialize_doc(docs[i])])
        /\ UNCHANGED <<bots, tasks, nextId, inflight, users>>

IndexInRangeNoLower(index, n) == index < n

\* not (index < 0 or index >= len(candidates))
IndexInRange(index, n) == ~(index < 0 \/ index >= n)

ChosenFirst(candidates, index) == PyIndex(candidates, 0)

\* candidates[payload.index]
Chosen(candidates, index) == PyIndex(candidates, index)

ApprovalSetStatusOnly(selection) == [status |-> "succeeded"]

ApprovalSetSelectionOnly(selection) == [selection |-> Some(selection)]

\* {"selection": selection, "status": "succeeded"}
ApprovalSet(selection) == [selection |-> Some(selection), status |-> "succeeded"]

ApprovePlanGuarded(tasksNow, task_id, index) ==
    IF ~ObjectIdIsValid(task_id)
    THEN [code |-> 400, detail |-> "Invalid task id"]
    ELSE LET task == FindOne(tasksNow, ObjectId(task_id))
         IN  IF task = None
             THEN [code |-> 404, detail |-> "Task not found"]
             ELSE IF ~IndexInRange(index, Len(task[1].candidates))
                  THEN [code |-> 400, detail |-> "Invalid candidate index"]
                  ELSE IF task[1].status = "succeeded"
                       THEN [code |-> 400, detail |-> "Task already approved"]
                       ELSE [code |-> 200, selection |-> task[1].candidates[index + 1]]

\* approve_selection up to its store write: the error it raises, or the selection
ApprovePlan(tasksNow, task_id, index) ==
    IF ~ObjectIdIsValid(task_id)
    THEN [code |-> 400, detail |-> "Invalid task id"]
    ELSE LET task == FindOne(tasksNow, ObjectId(task_id))
         IN  IF task = None
             THEN [code |-> 404, detail |-> "Task not found"]
             ELSE LET candidates == task[1].candidates
                  IN  IF ~IndexInRange(index, Len(candidates))
                      THEN [code |-> 400, detail |-> "Invalid candidate index"]
                      ELSE LET selection == Chosen(candidates, index)
                           IN  IF selection = None
                               THEN [code |-> 500, detail |-> "IndexError"]
                               ELSE [code |-> 200, selection |-> selection[1]]

\* the find_one_and_update of approve_selection and its response
ApproveWrite(tasksNow, task_id, selection) ==
    LET tasks2  == FindOneAndUpdate(tasksNow, ObjectId(task_id), ApprovalSet(selection))
        updated == FindOne(tasks2, ObjectId(task_id))
    IN  [tasks |-> tasks2,
         body  |-> IF updated = None THEN None ELSE serialize_doc(updated[1])]

\* POST /api/tasks/approve
approve_selection(task_id, index) ==
    LET req  == [task_id |-> task_id, index |-> index]
        plan == ApprovePlan(tasks, task_id, index)
    IN  /\ IF plan.code # 200
           THEN /\ resp' = Raise("approve_selection", req, plan.code, plan.detail)
                /\ UNCHANGED tasks
           ELSE LET w == ApproveWrite(tasks, task_id, plan.selection)
                IN  /\ tasks' = w.tasks
                    /\ resp' = Response("approve_selection", req, 200, w.body)
        /\ UNCHANGED <<bots, nextId, inflight, users>>

----------------------------------------------------------------------------
(* Requests served one at a time *)

\* below the range, its first, a middle and its last index, and the length itself
Indexes == {0 - 1, 0, 2, DEFAULT_LIMIT - 1, DEFAULT_LIMIT}

BotFilters == {None} \cup {Some(s) : s \in IdStrings}

Init ==
    /\ bots = << >>
    /\ tasks = << >>
    /\ nextId = 1
    /\ resp = NoResponse
    /\ inflight = [w \in 1..NumWorkers |-> Idle]
    /\ users = << >>

Next ==
    \/ \E u \in BotOwners, rs \in RetailerLists : create_bot(u, rs)
    \/ \E b \in IdStrings : delete_bot(b)
    \/ \E u \in Users, b \in IdStrings, p \in Prompts : create_task(u, b, p)
    \/ \E u \in Users, b \in BotFilters : list_tasks(u, b)
    \/ \E t \in IdStrings, i \in Indexes : approve_selection(t, i)

Spec == Init /\ [][Next]_vars

----------------------------------------------------------------------------
(* Requests served one at a time over a store that already holds a task *)

\* a task document as the Task schema admits it: any of the five statuses
StoredTask(status) ==
    LET found == Search("wireless mouse", Some("amazon"), DEFAULT_LIMIT).results
    IN  [_id        |-> 1,
         user_id    |-> "u1",
         bot_id     |-> str(1),
         prompt     |-> "wireless mouse",
         status     |-> status,
         candidates |-> found,
         selection  |-> IF status = "succeeded" THEN Some(found[1]) ELSE None,
         logs       |-> << <<"Task created">>, <<"Searched ", Len(found), " candidates">> >>]

InitStored ==
    /\ bots = << >>
    /\ \E status \in TaskStatus : tasks = <<StoredTask(status)>>
    /\ nextId = 2
    /\ resp = NoResponse
    /\ inflight = [w \in 1..NumWorkers |-> Idle]
    /\ users = << >>

SpecStored == InitStored /\ [][Next]_vars

----------------------------------------------------------------------------
(* The workflow operations alone, served one at a time for two users over   *)
(* a store that holds two bots.  The bots were created before, so their    *)
(* ids are not among the ids handed out here.                              *)

WorkflowBots == {MaxDocs + 1, MaxDocs + 2}

WorkflowBotIds == {str(b) : b \in WorkflowBots}

WorkflowFilters == {None, Some(EmptyText)} \cup {Some(b) : b \in WorkflowBotIds}

WorkflowTaskIds == {str(n) : n \in 1..MaxDocs}

InitWorkflow ==
    /\ bots = CreateDocument(
                 CreateDocument(<< >>, MaxDocs + 1, NewBot("u1", << >>)),
                 MaxDocs + 2, NewBot("u2", <<"walmart", "amazon">>))
    /\ tasks = << >>
    /\ nextId = 1
    /\ resp = NoResponse
    /\ inflight = [w \in 1..NumWorkers |-> Idle]
    /\ users = << >>

NextWorkflow ==
    \/ \E u \in Users, b \in WorkflowBotIds, p \in Prompts : create_task(u, b, p)
    \/ \E u \in Users, b \in WorkflowFilters : list_tasks(u, b)
    \/ \E t \in WorkflowTaskIds, i \in {0, 2, DEFAULT_LIMIT} : approve_selection(t, i)

SpecWorkflow == InitWorkflow /\ [][NextWorkflow]_vars

----------------------------------------------------------------------------
(* Requests served concurrently: each worker serves one request, and a      *)
(* handler takes one step per call of the store.  The store starts with    *)
(* the bot and the task that create_bot("u1", []) and                      *)
(* create_task("u1", bot, "wireless mouse") leave in it.                   *)

Workers == 1..NumWorkers

ConcIndexes == {0, 2, DEFAULT_LIMIT}

InitConc ==
    /\ bots = CreateDocument(<< >>, 1, NewBot("u1", << >>))
    /\ tasks = CreateDocument(<< >>, 2,
                 NewTask("u1", str(1), "wireless mouse",
                         Search("wireless mouse", Some(DEFAULT_RETAILER), DEFAULT_LIMIT).results))
    /\ nextId = 3
    /\ resp = NoResponse
    /\ inflight = [w \in Workers |-> Idle]
    /\ users = << >>

Done(op, req, code, body) ==
    [pc |-> "done", op |-> op, req |-> req, code |-> code, body |-> body]

\* approve_selection up to and including find_one
approve_selection_find(w, task_id, index) ==
    LET req  == [task_id |-> task_id, index |-> index]
        plan == ApprovePlan(tasks, task_id, index)
    IN  /\ inflight[w] = Idle
        /\ inflight' = [inflight EXCEPT ![w] =
              IF plan.code # 200
              THEN Done("approve_selection", req, plan.code, [detail |-> plan.detail])
              ELSE [pc |-> "approve_update", op |-> "approve_selection", req |-> req,
                    selection |-> plan.selection]]
        /\ UNCHANGED <<bots, tasks, nextId, resp, users>>

\* approve_selection from find_one_and_update on
approve_selection_update(w) ==
    /\ inflight[w].pc = "approve_update"
    /\ LET wr == ApproveWrite(tasks, inflight[w].req.task_id, inflight[w].selection)
       IN  /\ tasks' = wr.tasks
           /\ inflight' = [inflight EXCEPT ![w] =
                 Done("approve_selection", inflight[w].req, 200, wr.body)]
    /\ UNCHANGED <<bots, nextId, resp, users>>

\* create_task up to the search: the bot lookup and the candidates
create_task_find_bot(w, user_id, bot_id, prompt) ==
    LET req  == [user_id |-> user_id, bot_id |-> bot_id, prompt |-> prompt]
        plan == CreateTaskPlan(bots, user_id, bot_id, prompt)
    IN  /\ inflight[w] = Idle
        /\ inflight' = [inflight EXCEPT ![w] =
              IF plan.code # 200
              THEN Done("create_task", req, plan.code, [detail |-> plan.detail])
              ELSE [pc |-> "create_insert", op |-> "create_task", req |-> req,
                    task |-> plan.task]]
        /\ UNCHANGED <<bots, tasks, nextId, resp, users>>

\* create_task: create_document
create_task_insert(w) ==
    /\ inflight[w].pc = "create_insert"
    /\ tasks' = CreateDocument(tasks, nextId, inflight[w].task)
    /\ nextId' = nextId + 1
    /\ inflight' = [inflight EXCEPT ![w] =
          [pc |-> "create_fetch", op |-> "create_task", req |-> inflight[w].req,
           task_id |-> nextId]]
    /\ UNCHANGED <<bots, resp, users>>

\* create_task: find_one of the created task, and the response
create_task_fetch(w) ==
    /\ inflight[w].pc = "create_fetch"
    /\ LET created == FindOne(tasks, inflight[w].task_id)
       IN  inflight' = [inflight EXCEPT ![w] =
              Done("create_task", inflight[w].req, 200,
                   IF created = None THEN None ELSE serialize_doc(created[1]))]
    /\ UNCHANGED <<bots, tasks, nextId, resp, users>>

\* delete_bot: its one store call
delete_bot_call(w, bot_id) ==
    /\ inflight[w] = Idle
    /\ IF ~ObjectIdIsValid(bot_id)
       THEN /\ inflight' = [inflight EXCEPT ![w] =
                  Done("delete_bot", [bot_id |-> bot_id], 400, [detail |-> "Invalid bot id"])]
            /\ UNCHANGED bots
       ELSE /\ bots' = DeleteOne(bots, ObjectId(bot_id))
            /\ inflight' = [inflight EXCEPT ![w] =
                  Done("delete_bot", [bot_id |-> bot_id], 200, [ok |-> TRUE])]
    /\ UNCHANGED <<tasks, nextId, resp, users>>

NextConc ==
    \E w \in Workers :
        \/ \E i \in ConcIndexes : approve_selection_find(w, str(2), i)
        \/ approve_selection_update(w)
        \/ create_task_find_bot(w, "u1", str(1), "wireless mouse")
        \/ create_task_insert(w)
        \/ create_task_fetch(w)
        \/ delete_bot_call(w, str(1))

SpecConc == InitConc /\ [][NextConc]_vars

----------------------------------------------------------------------------
(* Signup served concurrently: each worker serves one signup, and the       *)
(* handler takes one step per call of the store.                           *)

Emails == {"ann@example.com", "bob@example.com"}

Names == {None, Some("Ann")}

\* UserSchema(email=payload.email, name=payload.name)
NewUser(email, name) == [email |-> email, name |-> name, plan |-> "free", is_active |-> TRUE]

\* db["user"].find_one({"email": email}): the first user with the email, or None
FindUserByEmail(coll, email) ==
    LET hits == {i \in DOMAIN coll : coll[i].email = email}
    IN  IF hits = {} THEN None
        ELSE Some(coll[CHOOSE i \in hits : \A j \in hits : i <= j])

\* signup: find_one by email, and the response when the email is known
signup_find(w, email, name) ==
    LET req      == [email |-> email, name |-> name]
        existing == FindUserByEmail(users, email)
    IN  /\ inflight[w] = Idle
        /\ inflight' = [inflight EXCEPT ![w] =
              IF existing # None
              THEN Done("signup", req, 200, serialize_doc(existing[1]))
              ELSE [pc |-> "signup_create", op |-> "signup", req |-> req,
                    user |-> NewUser(email, name)]]
        /\ UNCHANGED <<bots, tasks, nextId, resp, users>>

\* signup: create_document
signup_create(w) ==
    /\ inflight[w].pc = "signup_create"
    /\ users' = CreateDocument(users, nextId, inflight[w].user)
    /\ nextId' = nextId + 1
    /\ inflight' = [inflight EXCEPT ![w] =
          [pc |-> "signup_fetch", op |-> "signup", req |-> inflight[w].req,
           user_id |-> nextId]]
    /\ UNCHANGED <<bots, tasks, resp>>

\* signup: find_one of the created user, and the response
signup_fetch(w) ==
    /\ inflight[w].pc = "signup_fetch"
    /\ LET created == FindOne(users, inflight[w].user_id)
       IN  inflight' = [inflight EXCEPT ![w] =
              Done("signup", inflight[w].req, 200,
                   IF created = None THEN None ELSE serialize_doc(created[1]))]
    /\ UNCHANGED <<bots, tasks, nextId, resp, users>>

NextSignup ==
    \E w \in Workers :
        \/ \E e \in Emails, n \in Names : signup_find(w, e, n)
        \/ signup_create(w)
        \/ signup_fetch(w)

SpecSignup == Init /\ [][NextSignup]_vars

----------------------------------------------------------------------------
(* Creation and listing: workers create tasks for the one stored bot, a     *)
(* handler taking one step per call of the store, and the tasks of a user  *)
(* are listed in between.  list_tasks calls the store once.                *)

InitRoundTrip ==
    /\ bots = CreateDocument(<< >>, 1, NewBot("u1", << >>))
    /\ tasks = << >>
    /\ nextId = 2
    /\ resp = NoResponse
    /\ inflight = [w \in Workers |-> Idle]
    /\ users = << >>

NextRoundTrip ==
    \/ \E w \in Workers, u \in Users, p \in Prompts : create_task_find_bot(w, u, str(1), p)
    \/ \E w \in Workers : create_task_insert(w)
    \/ \E w \in Workers : create_task_fetch(w)
    \/ \E u \in Users : list_tasks(u, None)

SpecRoundTrip == InitRoundTrip /\ [][NextRoundTrip]_vars

----------------------------------------------------------------------------
(* The candidate generator alone: every step is one search request *)

RetailerInputs == {None} \cup {Some(r) : r \in RetailerNames}

NextSearch ==
    \E q \in Queries, r \in RetailerInputs, l \in Limits : search_products(q, r, l)

SpecSearch == Init /\ [][NextSearch]_vars

----------------------------------------------------------------------------
(* Properties of approve_selection *)

\* the stored tasks a task id string resolves to (at most one)
Resolving(coll, id) == {i \in DOMAIN coll : id.hex /\ coll[i]._id = id.n}

Approved == resp.op = "approve_selection"

StoreUnchanged == bots' = bots /\ tasks' = tasks /\ nextId' = nextId /\ users' = users

\* C1: Approve(task_id, index) on an existing task with 0 <= index < len(candidates)
\* succeeds, and the returned task and the stored task both have status "succeeded"
\* and selection equal to the stored candidate at position index.
C1_ApproveSelectsCandidate ==
    Approved =>
        \A i \in Resolving(tasks, resp.req.task_id) :
            (0 <= resp.req.index /\ resp.req.index < Len(tasks[i].candidates)) =>
                /\ resp.code = 200
                /\ resp.body.id = resp.req.task_id
                /\ resp.body.status = "succeeded"
                /\ resp.body.selection = Some(tasks[i].candidates[resp.req.index + 1])
                /\ tasks[i].status = "succeeded"
                /\ tasks[i].selection = Some(tasks[i].candidates[resp.req.index + 1])

\* an approval of index 2 of a task with 5 candidates has been answered
C1_Witness ==
    /\ Approved
    /\ resp.code = 200
    /\ resp.req.index = 2
    /\ \E i \in Resolving(tasks, resp.req.task_id) :
           /\ Len(tasks[i].candidates) = 5
           /\ tasks[i].selection = Some(tasks[i].candidates[3])

\* C2: Approve on an existing task with index < 0 or index >= len(candidates) fails
\* with "Invalid candidate index" (400) and writes nothing: the task and every
\* other record are as before the call.
C2_ApproveRejectsBadIndex ==
    [][(resp'.op = "approve_selection" /\
        \E i \in Resolving(tasks, resp'.req.task_id) :
            resp'.req.index < 0 \/ resp'.req.index >= Len(tasks[i].candidates))
       => /\ resp'.code = 400
          /\ resp'.body.detail = "Invalid candidate index"
          /\ StoreUnchanged]_vars

\* index 5 of a task with 5 candidates has been refused
C2_Witness ==
    /\ Approved
    /\ resp.code = 400
    /\ resp.body.detail = "Invalid candidate index"
    /\ resp.req.index = 5
    /\ \E i \in Resolving(tasks, resp.req.task_id) : Len(tasks[i].candidates) = 5

\* C3 as stated: Approve with a task id that resolves to no stored task, malformed ids
\* included, fails with "Task not found" (404) and writes nothing.
C3_UnknownTaskIsNotFound ==
    [][(resp'.op = "approve_selection" /\ Resolving(tasks, resp'.req.task_id) = {})
       => /\ resp'.code = 404
          /\ resp'.body.detail = "Task not found"
          /\ StoreUnchanged]_vars

\* C3 amended: Approve with a task id that resolves to no stored task writes nothing
\* and fails: with "Task not found" (404) when the id is well-formed, and with
\* "Invalid task id" (400) when it is not in the store's id format.
C3_UnknownTaskRejected ==
    [][(resp'.op = "approve_selection" /\ Resolving(tasks, resp'.req.task_id) = {})
       => /\ StoreUnchanged
          /\ (resp'.req.task_id.hex =>
                (resp'.code = 404 /\ resp'.body.detail = "Task not found"))
          /\ (~resp'.req.task_id.hex =>
                (resp'.code = 400 /\ resp'.body.detail = "Invalid task id"))]_vars

\* a well-formed id that no task has was refused while another task is stored
C3_Witness ==
    /\ Approved
    /\ resp.code = 404
    /\ resp.req.task_id.hex
    /\ tasks # << >>
    /\ Resolving(tasks, resp.req.task_id) = {}

\* C8: once a task's selection holds a candidate, no operation changes it.
C8_SelectionSetOnce ==
    [][\A i \in DOMAIN tasks :
          tasks[i].selection # None => tasks'[i].selection = tasks[i].selection]_vars

----------------------------------------------------------------------------
(* Properties of create_task *)

Created == resp.op = "create_task"

\* the stored bots a bot id string resolves to (at most one)
CreatedFor(coll, id) == {i \in DOMAIN coll : id.hex /\ coll[i]._id = id.n}

\* C4: for an existing bot whose first retailer is supported, or whose retailer list is
\* empty (then "amazon"), CreateTask stores and returns a task with status
\* "awaiting_approval", no selection, the 5 candidates of Search(prompt, retailer, 5)
\* in order, all of that retailer, and the two log entries "Task created" and
\* "Searched 5 candidates".
C4_CreateTaskResult ==
    Created =>
        \A b \in CreatedFor(bots, resp.req.bot_id) :
            LET rs == bots[b].retailers
                r  == IF rs = << >> THEN "amazon" ELSE rs[1]
            IN  r \in SUPPORTED_RETAILERS =>
                    /\ resp.code = 200
                    /\ resp.body.user_id = resp.req.user_id
                    /\ resp.body.bot_id = resp.req.bot_id
                    /\ resp.body.prompt = resp.req.prompt
                    /\ resp.body.status = "awaiting_approval"
                    /\ resp.body.selection = None
                    /\ resp.body.candidates = Search(resp.req.prompt, Some(r), 5).results
                    /\ Len(resp.body.candidates) = 5
                    /\ \A k \in 1..5 : resp.body.candidates[k].retailer = r
                    /\ resp.body.logs =
                           << <<"Task created">>, <<"Searched ", 5, " candidates">> >>
                    /\ \E i \in Resolving(tasks, resp.body.id) :
                           serialize_doc(tasks[i]) = resp.body

\* a task was created for a bot whose first retailer is "walmart"
C4_Witness ==
    /\ Created
    /\ resp.code = 200
    /\ \E b \in CreatedFor(bots, resp.req.bot_id) : bots[b].retailers = <<"walmart", "amazon">>
    /\ resp.body.candidates[1].retailer = "walmart"

\* C5: CreateTask with a bot id that resolves to no stored bot, well-formed or not,
\* fails with "Bot not found" (404) and stores nothing.
C5_CreateTaskUnknownBot ==
    [][(resp'.op = "create_task" /\ CreatedFor(bots, resp'.req.bot_id) = {})
       => /\ resp'.code = 404
          /\ resp'.body.detail = "Bot not found"
          /\ StoreUnchanged]_vars

\* a well-formed id of a deleted bot was refused
C5_Witness ==
    /\ Created
    /\ resp.code = 404
    /\ resp.req.bot_id.hex
    /\ resp.req.bot_id.n < nextId
    /\ bots = << >>

\* C6: a CreateTask that fails stores nothing, and it fails with "Unsupported
\* retailer" (400) when the bot's first retailer is searched as an unsupported one.
C6_CreateTaskAllOrNothing ==
    [][resp'.op = "create_task"
       => /\ resp'.code # 200 => StoreUnchanged
          /\ \A b \in CreatedFor(bots, resp'.req.bot_id) :
                (bots[b].retailers # << >> /\ bots[b].retailers[1] # ""
                   /\ Lower(bots[b].retailers[1]) \notin SUPPORTED_RETAILERS)
                => /\ resp'.code = 400
                   /\ resp'.body.detail = "Unsupported retailer"
                   /\ StoreUnchanged]_vars

\* candidate generation failed for a bot whose first retailer is "ebay"
C6_Witness ==
    /\ Created
    /\ resp.code = 400
    /\ resp.body.detail = "Unsupported retailer"
    /\ \E b \in CreatedFor(bots, resp.req.bot_id) : bots[b].retailers[1] = "ebay"
    /\ tasks = << >>

----------------------------------------------------------------------------
(* Properties of search_products *)

Searched == resp.op = "search_products"

Clamp(limit) == IF limit < 0 THEN 0 ELSE IF limit > 8 THEN 8 ELSE limit

\* C10: for a supported retailer and any integer limit, Search returns
\* max(0, min(limit, 8)) results.
C10_SearchLength ==
    (Searched /\ resp.req.retailer # None /\ resp.req.retailer[1] \in SUPPORTED_RETAILERS)
    => /\ resp.code = 200
       /\ Len(resp.body.results) = Clamp(resp.req.limit)

\* a search with a limit above 8 was answered with 8 results
C10_Witness ==
    /\ Searched
    /\ resp.req.retailer = Some("walmart")
    /\ resp.req.limit > 8
    /\ resp.code = 200
    /\ Len(resp.body.results) = 8

----------------------------------------------------------------------------
(* Properties of the task life cycle *)

Writers(id) ==
    {w \in Workers : /\ inflight[w].pc \in {"approve_update", "done"}
                     /\ inflight[w].op = "approve_selection"
                     /\ inflight[w].req.task_id = id
                     /\ inflight[w].pc = "done" => inflight[w].code = 200}

\* C9: under every interleaving of concurrent approvals, a task is never in a mixed
\* state (its selection is set exactly when its status is "succeeded", and is then
\* one of its candidates), and once the only two approvals of a task, of indices i
\* and j, have completed, its status is "succeeded" and its selection is
\* candidates[i] or candidates[j].
C9_ConcurrentApprove ==
    \A t \in DOMAIN tasks :
        /\ tasks[t].selection # None <=> tasks[t].status = "succeeded"
        /\ tasks[t].selection # None =>
               \E k \in DOMAIN tasks[t].candidates :
                   tasks[t].selection = Some(tasks[t].candidates[k])
        /\ \A p, q \in Workers :
               (/\ p # q
                /\ Writers(str(tasks[t]._id)) = {p, q}
                /\ inflight[p].pc = "done"
                /\ inflight[q].pc = "done")
               => /\ tasks[t].status = "succeeded"
                  /\ tasks[t].selection \in
                        {Some(tasks[t].candidates[inflight[p].req.index + 1]),
                         Some(tasks[t].candidates[inflight[q].req.index + 1])}

\* two approvals of one task with different indices have both completed, and the
\* response of one of them no longer shows what is stored
C9_Witness ==
    \E p, q \in Workers :
        /\ p # q
        /\ inflight[p].pc = "done" /\ inflight[q].pc = "done"
        /\ inflight[p].op = "approve_selection" /\ inflight[q].op = "approve_selection"
        /\ inflight[p].code = 200 /\ inflight[q].code = 200
        /\ inflight[p].req.task_id = inflight[q].req.task_id
        /\ inflight[p].req.index # inflight[q].req.index
        /\ \E t \in Resolving(tasks, inflight[p].req.task_id) :
               /\ tasks[t].selection = inflight[q].body.selection
               /\ tasks[t].selection # inflight[p].body.selection

----------------------------------------------------------------------------
(* The retailer of a search *)

\* C11 as stated: for every given retailer that is no member of the supported set,
\* Search fails with "Unsupported retailer" (400) and produces no result.
C11_NonMemberRejected ==
    (Searched /\ resp.req.retailer # None /\ resp.req.retailer[1] \notin SUPPORTED_RETAILERS)
    => /\ resp.code = 400
       /\ resp.body = [detail |-> "Unsupported retailer"]

\* C11 amended: a retailer is matched by its lowercase form, and an absent or empty
\* retailer is searched as "amazon".  A non-empty retailer whose lowercase form is
\* not supported fails with "Unsupported retailer" (400) and no result; every other
\* search succeeds, with each result carrying the lowercase retailer.
C11_RetailerMatching ==
    Searched =>
        LET given == resp.req.retailer
            r     == IF given = None \/ given[1] = "" THEN "amazon" ELSE Lower(given[1])
        IN  IF r \notin SUPPORTED_RETAILERS
            THEN /\ resp.code = 400
                 /\ resp.body = [detail |-> "Unsupported retailer"]
            ELSE /\ resp.code = 200
                 /\ \A k \in DOMAIN resp.body.results : resp.body.results[k].retailer = r

\* a search of "ebay" was refused
C11_Witness ==
    /\ Searched
    /\ resp.req.retailer = Some("ebay")
    /\ resp.req.limit = 5
    /\ resp.code = 400
    /\ resp.body = [detail |-> "Unsupported retailer"]

----------------------------------------------------------------------------
(* Properties of list_tasks *)

Listed == resp.op = "list_tasks"

\* the returned tasks are stored tasks
ListedFromStore(body, coll) ==
    \A k \in DOMAIN body : \E i \in DOMAIN coll : serialize_doc(coll[i]) = body[k]

----------------------------------------------------------------------------
(* What approve_selection leaves alone *)

\* two task documents that differ at most in selection and status
SameButResolution(a, b) ==
    /\ DOMAIN a = DOMAIN b
    /\ \A k \in DOMAIN a \ {"selection", "status"} : a[k] = b[k]

\* C14: no operation changes the id, user_id, bot_id, prompt, candidates or logs of a
\* stored task, and an Approve call, successful or not, changes no task but the one
\* it names and no other record.
C14_ApproveFrame ==
    [][/\ \A i \in DOMAIN tasks :
             i \in DOMAIN tasks' /\ SameButResolution(tasks[i], tasks'[i])
       /\ resp'.op = "approve_selection"
          => /\ Len(tasks') = Len(tasks)
             /\ \A i \in DOMAIN tasks :
                   i \notin Resolving(tasks, resp'.req.task_id) => tasks'[i] = tasks[i]
             /\ bots' = bots /\ users' = users /\ nextId' = nextId]_vars

\* one of two stored tasks was approved and the other still awaits approval
C14_Witness ==
    /\ Approved
    /\ resp.code = 200
    /\ \E i, j \in DOMAIN tasks :
          /\ i \in Resolving(tasks, resp.req.task_id)
          /\ tasks[i].status = "succeeded"
          /\ Len(tasks[i].logs) = 2
          /\ j # i
          /\ tasks[j].status = "awaiting_approval"
          /\ tasks[j].selection = None

----------------------------------------------------------------------------
(* Creation followed by listing *)

\* the workers whose create_task for user u has returned a task
Creators(u) ==
    {w \in Workers : /\ inflight[w].pc = "done"
                     /\ inflight[w].op = "create_task"
                     /\ inflight[w].code = 200
                     /\ inflight[w].req.user_id = u}

\* the workers whose create_task for user u has written its task and not returned
Creating(u) ==
    {w \in Workers : inflight[w].pc = "create_fetch" /\ inflight[w].req.user_id = u}

\* C13: when the tasks of user u are exactly those of k completed CreateTask calls,
\* ListTasks(u) returns k tasks, one for each call and equal in every field to the
\* task that call returned.
C13_RoundTrip ==
    [][(/\ resp'.op = "list_tasks"
        /\ UNCHANGED <<tasks, inflight>>
        /\ Creating(resp'.req.user_id) = {})
       => LET made == Creators(resp'.req.user_id)
          IN  /\ Len(resp'.body) = Cardinality(made)
              /\ \A w \in made : \E k \in DOMAIN resp'.body : resp'.body[k] = inflight[w].body
              /\ \A v, w \in made : v # w => inflight[v].body.id # inflight[w].body.id]_vars

\* two tasks were created for a user and one for another user, and the list of the
\* first user holds the two
C13_Witness ==
    /\ Listed
    /\ Len(resp.body) = 2
    /\ Cardinality(Creators(resp.req.user_id)) = 2
    /\ \A w \in Creators(resp.req.user_id) :
          \E k \in DOMAIN resp.body : resp.body[k] = inflight[w].body
    /\ \E i \in DOMAIN tasks : tasks[i].user_id # resp.req.user_id

----------------------------------------------------------------------------
(* Approval of an approved task *)

\* C15: an Approve with a valid index of a task that was approved before is accepted
\* like the first one, and its write leaves the task with selection = candidates[j]
\* and status 'succeeded' and everything else as it was, whatever the earlier
\* approval chose; when the task already holds candidates[j] the write changes nothing.
C15_Reapproval ==
    [][\A w \in Workers :
          LET a == inflight[w]
              b == inflight'[w]
          IN  /\ (a = Idle /\ b # Idle /\ b.op = "approve_selection")
                 => \A t \in Resolving(tasks, b.req.task_id) :
                       (/\ tasks[t].status = "succeeded"
                        /\ b.req.index \in 0..(Len(tasks[t].candidates) - 1))
                       => /\ b.pc = "approve_update"
                          /\ b.selection = tasks[t].candidates[b.req.index + 1]
              /\ (a.pc = "approve_update" /\ b.pc = "done")
                 => /\ b.code = 200
                    /\ \A t \in Resolving(tasks, a.req.task_id) :
                          LET chosen == Some(tasks[t].candidates[a.req.index + 1])
                          IN  /\ tasks' = [tasks EXCEPT ![t] =
                                    [@ EXCEPT !.selection = chosen, !.status = "succeeded"]]
                              /\ b.body = serialize_doc(tasks'[t])
                              /\ (tasks[t].selection = chosen /\ tasks[t].status = "succeeded")
                                 => tasks' = tasks]_vars

\* three approvals of one task have completed, two of them with the same index, and
\* the task holds the candidate of the third
C15_Witness ==
    \E p, q, r \in Workers :
        /\ p # q /\ q # r /\ p # r
        /\ \A w \in {p, q, r} :
              /\ inflight[w].pc = "done"
              /\ inflight[w].op = "approve_selection"
              /\ inflight[w].code = 200
        /\ inflight[q].req.task_id = inflight[p].req.task_id
        /\ inflight[r].req.task_id = inflight[p].req.task_id
        /\ inflight[p].req.index = inflight[q].req.index
        /\ inflight[r].req.index # inflight[p].req.index
        /\ \E t \in Resolving(tasks, inflight[p].req.task_id) :
              /\ tasks[t].status = "succeeded"
              /\ tasks[t].selection = Some(tasks[t].candidates[inflight[r].req.index + 1])

----------------------------------------------------------------------------
(* Invariants of the stored tasks *)

\* C16: every stored task that the workflow operations created and approved has
\* status 'awaiting_approval' or 'succeeded', never 'queued', 'running' or 'failed'.
C16_WorkflowStatuses ==
    \A t \in DOMAIN tasks :
        /\ tasks[t].status \in {"awaiting_approval", "succeeded"}
        /\ tasks[t].status \in TaskStatus \ {"queued", "running", "failed"}

\* one stored task was approved and another awaits approval
C16_Witness ==
    /\ Len(tasks) = 2
    /\ \E i, j \in DOMAIN tasks :
          tasks[i].status = "succeeded" /\ tasks[j].status = "awaiting_approval"

\* C17: in every reachable state a stored task has a selection exactly when its
\* status is 'succeeded', and the selection is one of the task's own candidates.
C17_SelectionIffSucceeded ==
    \A t \in DOMAIN tasks :
        /\ (tasks[t].selection # None) <=> (tasks[t].status = "succeeded")
        /\ tasks[t].selection # None
           => \E k \in DOMAIN tasks[t].candidates :
                 tasks[t].selection[1] = tasks[t].candidates[k]

\* a stored task holds its last candidate as selection, and its bot was deleted
C17_Witness ==
    /\ bots = << >>
    /\ \E i \in DOMAIN tasks :
          /\ tasks[i].status = "succeeded"
          /\ tasks[i].selection = Some(tasks[i].candidates[Len(tasks[i].candidates)])

----------------------------------------------------------------------------
(* create_task beside delete_bot *)

\* C18: whenever create_task writes its task, the bot the task references is in the
\* store, also when the bot is deleted by a concurrent delete_bot.
C18_BotExistsAtWrite ==
    [][\A w \in Workers :
          (inflight[w].pc = "create_insert" /\ inflight'[w].pc = "create_fetch")
          => FindOne(bots, ObjectId(inflight[w].req.bot_id)) # None]_vars

----------------------------------------------------------------------------
(* Signup *)

\* the workers whose signup with the email has returned
SignedUp(email) ==
    {w \in Workers : /\ inflight[w].pc = "done"
                     /\ inflight[w].op = "signup"
                     /\ inflight[w].req.email = email}

\* C19: the store holds at most one user per email, and all signups with one email
\* return the same user id, also when they interleave at their store calls.
C19_EmailsUnique ==
    /\ \A i, j \in DOMAIN users : users[i].email = users[j].email => i = j
    /\ \A e \in Emails : \A p, q \in SignedUp(e) : inflight[p].body.id = inflight[q].body.id

====
